---- MODULE Spec2Model ----
(***************************************************************************)
(* A model of kubedepot (rgeraskin/gogetkubeconfig): the kubeconfig        *)
(* document, mergeKubeConfigs, the in-memory store built by NewServer and  *)
(* the get handler that folds the requested configs.                       *)
(*                                                                         *)
(* Strings that the code only compares or copies are TLA+ strings or       *)
(* tuples; file names and config names are sequences of chunks, a chunk    *)
(* being either "." or a dot-free piece, so that filepath.Ext,             *)
(* strings.TrimSuffix and strings.HasPrefix are computed, not assumed.     *)
(***************************************************************************)
EXTENDS Integers, Sequences, FiniteSets, TLC

VARIABLES
    config1,        \* mergeKubeConfigs: the accumulator argument
    config2,        \* mergeKubeConfigs: the incoming argument
    merged,         \* mergeKubeConfigs: what the last call returned
    folded,         \* incoming documents of the earlier calls of this fold
    mpc,            \* "call" before the call, "done" after it, "off"
    state,          \* store lifecycle: Unloaded, Loading, Ready, Failed
    files,          \* os.ReadDir(ConfigsDir): the directory entries, sorted
    loadIdx,        \* loadAllConfigs: entries processed so far
    LoadedConfigs,  \* Server.LoadedConfigs: config name -> *KubeConfig
    startErr,       \* the error NewServer returned, NoErr if none
    req,            \* the get request being served: its name parameters
    requested,      \* the get request: what getRequestedConfigNames returned
    resp,           \* the get request: status, document, error; NoResp if none
    listed,         \* the list request: status and names; NoList if none
    heap,           \* memory: the KubeConfig structs and the backing arrays
    apc,            \* two calls on one accumulator: "build", "second", "done"
    aArgs,          \* two calls on one accumulator: the argument pointers
    aRes,           \* two calls on one accumulator: what the calls returned
    aSeen,          \* two calls on one accumulator: documents as first seen
    ptrConfigs,     \* Server.LoadedConfigs as a map of pointers
    calls,          \* the requests in flight, one per goroutine
    readyIndex      \* the documents of the index when the server was returned

mvars == <<config1, config2, merged, folded, mpc>>
svars == <<state, files, loadIdx, LoadedConfigs, startErr, req, requested, resp, listed>>
hvars == <<heap, apc, aArgs, aRes, aSeen, ptrConfigs, calls, readyIndex>>
vars == <<config1, config2, merged, folded, mpc,
          state, files, loadIdx, LoadedConfigs, startErr, req, requested, resp, listed,
          heap, apc, aArgs, aRes, aSeen, ptrConfigs, calls, readyIndex>>

(***************************************************************************)
(* Bounds of the model.                                                    *)
(***************************************************************************)
MaxAccLen == 2      \* entries per section of an accumulator drawn in MergeInit
MaxIncLen == 2      \* entries per section of an incoming document
MaxFold == 2        \* calls of mergeKubeConfigs in one fold of the harness
MaxReq == 3         \* name parameters of one get request
MaxBuild == 3       \* merges that build the accumulator of the two calls
MaxConcReq == 2     \* name parameters of a get request served concurrently

(***************************************************************************)
(* kubeconfig.go: constants and the KubeConfig document.                   *)
(***************************************************************************)
kubeConfigApiVersion == "v1"
kubeConfigKind == "Config"
kubeConfigCurrentContext == "pp-dev"

\* A nil error.
NoError == ""

\* A nil *KubeConfig.
NilKubeConfig == [nil |-> TRUE]

\* The KubeConfig struct.
KubeConfig(apiVersion, kind, clusters, contexts, currentContext, users) ==
    [ApiVersion |-> apiVersion, Kind |-> kind, Clusters |-> clusters,
     Contexts |-> contexts, CurrentContext |-> currentContext, Users |-> users]

\* NewKubeConfig(""): &KubeConfig{}, every field the zero value.
NewKubeConfig == KubeConfig("", "", <<>>, <<>>, "", <<>>)

\* KubeConfig.Validate: the first empty section, in the order of the code.
Validate(k) ==
    IF Len(k.Clusters) = 0 THEN "kubeconfig has no clusters"
    ELSE IF Len(k.Contexts) = 0 THEN "kubeconfig has no contexts"
    ELSE IF Len(k.Users) = 0 THEN "kubeconfig has no users"
    ELSE NoError

\* FirstNamesEqual comparing against the accumulator's last entry instead of
\* its first.
FirstNamesEqual_LastEntry(mine, others) ==
    Len(mine) > 0 /\ Len(others) > 0 /\ others[1].Name = mine[Len(mine)].Name

\* FirstNamesEqual comparing against every entry of the accumulator.
FirstNamesEqual_AnyEntry(mine, others) ==
    /\ Len(others) > 0
    /\ \E i \in 1..Len(mine) : others[1].Name = mine[i].Name

\* The comparison of one section: both non-empty and the first names equal.
FirstNamesEqual(mine, others) ==
    Len(mine) > 0 /\ Len(others) > 0 /\ others[1].Name = mine[1].Name

\* k.HasDuplicateNames(other): only the first entries are compared.
HasDuplicateNames(k, other) ==
    IF FirstNamesEqual(k.Clusters, other.Clusters)
        THEN "kubeconfig has duplicate cluster name"
    ELSE IF FirstNamesEqual(k.Contexts, other.Contexts)
        THEN "kubeconfig has duplicate context name"
    ELSE IF FirstNamesEqual(k.Users, other.Users)
        THEN "kubeconfig has duplicate user name"
    ELSE NoError

\* HasMultipleEntries without its check of the users.
HasMultipleEntries_SkipsUsers(k) ==
    IF Len(k.Clusters) > 1 THEN "kubeconfig has more than one cluster"
    ELSE IF Len(k.Contexts) > 1 THEN "kubeconfig has more than one context"
    ELSE ""

\* KubeConfig.HasMultipleEntries.
HasMultipleEntries(k) ==
    IF Len(k.Clusters) > 1 THEN "kubeconfig has more than one cluster"
    ELSE IF Len(k.Contexts) > 1 THEN "kubeconfig has more than one context"
    ELSE IF Len(k.Users) > 1 THEN "kubeconfig has more than one user"
    ELSE NoError

\* The three checks with the lengths checked before the duplicates.
MergePreconditions_LengthFirst(c1, c2) ==
    IF Validate(c2) # NoError THEN Validate(c2)
    ELSE IF HasMultipleEntries(c2) # NoError THEN HasMultipleEntries(c2)
    ELSE HasDuplicateNames(c1, c2)

\* The order of the three checks of mergeKubeConfigs: the first error, or nil.
MergePreconditions(c1, c2) ==
    IF Validate(c2) # NoError THEN Validate(c2)
    ELSE IF HasDuplicateNames(c1, c2) # NoError THEN HasDuplicateNames(c1, c2)
    ELSE HasMultipleEntries(c2)

\* The appended slices the wrong way round.
AppendEntries_Prepend(mine, others) == others \o mine

\* append(config1.X, config2.X...): the value of the returned slice.
AppendEntries(mine, others) == mine \o others

\* The current-context kept from config1 when it has one.
MergedCurrentContext_KeepsConfig1(c1, c2) ==
    IF c1.CurrentContext = "" THEN c2.CurrentContext
    ELSE c1.CurrentContext

\* The current-context always taken from config2.
MergedCurrentContext_AlwaysIncoming(c1, c2) == c2.CurrentContext

\* The current-context of the merged document.
MergedCurrentContext(c1, c2) ==
    IF c1.CurrentContext = "" THEN c2.CurrentContext
    ELSE kubeConfigCurrentContext

\* The apiVersion and kind copied from config2.
MergedHeader_FromIncoming(c1, c2) ==
    [ApiVersion |-> c2.ApiVersion, Kind |-> c2.Kind]

\* The merged document's apiVersion and kind.
MergedHeader(c1, c2) ==
    [ApiVersion |-> kubeConfigApiVersion, Kind |-> kubeConfigKind]

\* mergeKubeConfigs(config1, config2): (merged, nil) or (nil, err).
mergeKubeConfigs(c1, c2) ==
    LET err == MergePreconditions(c1, c2) IN
    IF err # NoError
    THEN [err |-> err, doc |-> NilKubeConfig]
    ELSE [err |-> NoError,
          doc |-> KubeConfig(MergedHeader(c1, c2).ApiVersion,
                             MergedHeader(c1, c2).Kind,
                             AppendEntries(c1.Clusters, c2.Clusters),
                             AppendEntries(c1.Contexts, c2.Contexts),
                             MergedCurrentContext(c1, c2),
                             AppendEntries(c1.Users, c2.Users))]

\* The three kinds of merge error, from the message of the error.
ErrKind(err) ==
    IF err \in {"kubeconfig has no clusters", "kubeconfig has no contexts",
                "kubeconfig has no users"} THEN "EmptySection"
    ELSE IF err \in {"kubeconfig has duplicate cluster name",
                     "kubeconfig has duplicate context name",
                     "kubeconfig has duplicate user name"} THEN "DuplicateName"
    ELSE IF err \in {"kubeconfig has more than one cluster",
                     "kubeconfig has more than one context",
                     "kubeconfig has more than one user"} THEN "MultipleEntries"
    ELSE "none"

(***************************************************************************)
(* The documents the merge harness draws its arguments from.  The first    *)
(* entry of a section takes any name of the section's name set; a later    *)
(* entry at position i carries the first name of the set again and a       *)
(* payload of its own, so that a section can repeat a name and every       *)
(* entry is told from every other by its content.                          *)
(***************************************************************************)
ClusterNames == {"c1", "c2"}
ContextNames == {"x1", "x2"}
UserNames == {"u1", "u2"}

ClusterEntry(n, i, tag) ==
    [Name |-> n,
     Cluster |-> [CertificateAuthorityData |-> <<"ca", tag, i>>,
                  Server |-> <<"https", tag, i>>]]
ContextEntry(n, i, tag) ==
    [Name |-> n, Context |-> [Cluster |-> <<"cl", tag, i>>, User |-> <<"us", tag, i>>]]
UserEntry(n, i, tag) ==
    [Name |-> n, User |-> [token |-> <<"tok", tag, i>>]]

ClusterSections(tag, max) ==
    {[i \in 1..k |-> ClusterEntry(IF i = 1 THEN n ELSE "c1", i, tag)] :
        k \in 0..max, n \in ClusterNames}
ContextSections(tag, max) ==
    {[i \in 1..k |-> ContextEntry(IF i = 1 THEN n ELSE "x1", i, tag)] :
        k \in 0..max, n \in ContextNames}
UserSections(tag, max) ==
    {[i \in 1..k |-> UserEntry(IF i = 1 THEN n ELSE "u1", i, tag)] :
        k \in 0..max, n \in UserNames}

\* Accumulators: the zero document and documents of up to MaxAccLen entries.
AccDocs ==
    {NewKubeConfig} \cup
    {KubeConfig("v0", "Acc", cl, cx, cc, us) :
        cl \in ClusterSections("acc", MaxAccLen),
        cx \in ContextSections("acc", MaxAccLen),
        us \in UserSections("acc", MaxAccLen),
        cc \in {"", "acc-context"}}

\* Incoming documents: what yaml.Unmarshal can yield for a stored file.
IncDocs ==
    {KubeConfig(h[1], h[2], cl, cx, cc, us) :
        h \in {<<"v1", "Config">>, <<"v2", "List">>},
        cl \in ClusterSections("inc", MaxIncLen),
        cx \in ContextSections("inc", MaxIncLen),
        us \in UserSections("inc", MaxIncLen),
        cc \in {"", "inc-context"}}

\* Exactly one cluster, one context and one user.
SingleEntry(k) ==
    Len(k.Clusters) = 1 /\ Len(k.Contexts) = 1 /\ Len(k.Users) = 1

(***************************************************************************)
(* Errors of the server: the text of err.Error() as a sequence of pieces,  *)
(* outermost decoration first.  A piece is a literal of the code or a name *)
(* (a config name or a file name) formatted into the message.              *)
(***************************************************************************)
Lit(s) == [lit |-> s, name |-> <<>>]
Nm(n) == [lit |-> "", name |-> n]

\* A nil error.
NoErr == [text |-> <<>>]

\* errorx.InternalError.New(...)
NewErr(pieces) == [text |-> pieces]

\* errorx.Decorate(err, ...): "<message>, cause: <err>"
Decorate(err, pieces) == [text |-> pieces \o <<Lit(", cause: ")>> \o err.text]

\* The literals of the code that contain "not found".
NotFoundLits == {"kubeconfig not found: "}

\* The chunks of the names of the model that contain "not found".
NotFoundChunks == {"not found"}

\* strings.Contains(err.Error(), "not found"): a literal of the message or
\* a name formatted into it contains the words.
ContainsNotFound(err) ==
    \E i \in 1..Len(err.text) :
        \/ err.text[i].lit \in NotFoundLits
        \/ \E j \in 1..Len(err.text[i].name) : err.text[i].name[j] \in NotFoundChunks

StatusOK == 200
StatusNotFound == 404
StatusInternalServerError == 500

\* Server.getStatusCodeFromError
getStatusCodeFromError(err) ==
    IF ContainsNotFound(err) THEN StatusNotFound
    ELSE StatusInternalServerError

(***************************************************************************)
(* File names.  filepath.Ext scans from the end for the last dot.          *)
(***************************************************************************)
RECURSIVE LastDot(_, _)
LastDot(fileName, i) ==
    IF i = 0 THEN 0
    ELSE IF fileName[i] = "." THEN i
    ELSE LastDot(fileName, i - 1)

\* filepath.Ext(fileName): from the last dot to the end, "" without a dot.
Ext(fileName) ==
    LET j == LastDot(fileName, Len(fileName)) IN
    IF j = 0 THEN <<>> ELSE SubSeq(fileName, j, Len(fileName))

\* strings.TrimSuffix(s, suffix), for a suffix that Ext returned.
TrimSuffix(s, suffix) == SubSeq(s, 1, Len(s) - Len(suffix))

\* strings.HasPrefix(fileName, "..")
HasDotDotPrefix(fileName) ==
    Len(fileName) >= 2 /\ fileName[1] = "." /\ fileName[2] = "."

\* configName := strings.TrimSuffix(fileName, filepath.Ext(fileName))
ConfigName(fileName) == TrimSuffix(fileName, Ext(fileName))

(***************************************************************************)
(* The directory.  An entry is what os.ReadDir and os.Stat say about it    *)
(* and what NewKubeConfig(filePath) yields for its body.                   *)
(***************************************************************************)
StoredDoc(apiVersion, kind, cluster, context, user, currentContext) ==
    KubeConfig(apiVersion, kind,
               <<ClusterEntry(cluster, 1, cluster)>>,
               <<ContextEntry(context, 1, context)>>,
               currentContext,
               <<UserEntry(user, 1, user)>>)

DocDev == StoredDoc("v1", "Config", "c1", "x1", "u1", "x1")
DocProd == StoredDoc("v1", "Config", "c2", "x2", "u2", "x2")
DocBare == StoredDoc("v2", "List", "c3", "x3", "u3", "")
DocClash == StoredDoc("v1", "Config", "c2", "x4", "u4", "x4")
DocSeven == StoredDoc("v1", "Config", "c7", "x7", "u7", "x7")
DocTwoClusters ==
    [StoredDoc("v1", "Config", "c5", "x5", "u5", "x5")
        EXCEPT !.Clusters = @ \o <<ClusterEntry("c6", 2, "c5")>>]

\* What NewKubeConfig(filePath) returns for a body: (doc, nil) or (nil, err).
ParsedBodies ==
    {[err |-> NoError, doc |-> d] :
        d \in {DocDev, DocProd, DocBare, DocClash, DocTwoClusters, NewKubeConfig}}
    \cup {[err |-> "can't parse kubeconfig file", doc |-> NilKubeConfig]}

RegularFile(fileName, body) ==
    [Name |-> fileName, IsDir |-> FALSE, StatErr |-> FALSE, StatIsDir |-> FALSE,
     Body |-> body]

NoBody == [err |-> "can't read kubeconfig file", doc |-> NilKubeConfig]

\* The entries a directory of the model may hold, in the order of os.ReadDir
\* (sorted by file name): "..data" (a symlink to a directory), "a.yaml",
\* "b.yaml", "b.yml", "c.yaml", "not found.yaml", "sub" (a directory, or a
\* symlink whose target is gone).
EntryChoices ==
    << {[Name |-> <<".", ".", "data">>, IsDir |-> FALSE, StatErr |-> FALSE,
         StatIsDir |-> TRUE, Body |-> NoBody]},
       {RegularFile(<<"a", ".", "yaml">>, b) : b \in ParsedBodies},
       {RegularFile(<<"b", ".", "yaml">>, b) : b \in ParsedBodies},
       {RegularFile(<<"b", ".", "yml">>, b) : b \in
            {[err |-> NoError, doc |-> DocBare],
             [err |-> "can't parse kubeconfig file", doc |-> NilKubeConfig]}},
       {RegularFile(<<"c", ".", "yaml">>, b) : b \in
            {[err |-> NoError, doc |-> DocClash],
             [err |-> "can't parse kubeconfig file", doc |-> NilKubeConfig],
             NoBody}},
       {RegularFile(<<"not found", ".", "yaml">>, [err |-> NoError, doc |-> DocSeven])},
       {[Name |-> <<"sub">>, IsDir |-> TRUE, StatErr |-> FALSE,
         StatIsDir |-> TRUE, Body |-> NoBody],
        [Name |-> <<"sub">>, IsDir |-> FALSE, StatErr |-> TRUE,
         StatIsDir |-> FALSE, Body |-> NoBody]} >>

RECURSIVE DirectoriesFrom(_)
DirectoriesFrom(i) ==
    IF i > Len(EntryChoices) THEN {<<>>}
    ELSE LET rest == DirectoriesFrom(i + 1) IN
         rest \cup {<<e>> \o r : e \in EntryChoices[i], r \in rest}

Directories == DirectoriesFrom(1)

(***************************************************************************)
(* The store: Server.LoadedConfigs, a map from config name to document.    *)
(***************************************************************************)
EmptyMap == [n \in {} |-> NilKubeConfig]

\* s.LoadedConfigs[configName] = kubeConfig
MapPut(m, k, v) == [n \in (DOMAIN m) \cup {k} |-> IF n = k THEN v ELSE m[n]]

\* The orders in which a range over the map may yield its keys: every key
\* once, in any order.
KeyOrders(m) ==
    {o \in [1..Cardinality(DOMAIN m) -> DOMAIN m] :
        \A i, j \in DOMAIN o : i # j => o[i] # o[j]}

\* listConfigs leaving out the key the range yields last.
listConfigs_DropsLast(loaded) ==
    {SubSeq(o, 1, Len(o) - 1) : o \in KeyOrders(loaded)}

\* Server.listConfigs: the slices it may return, one per order of the range.
listConfigs(loaded) == KeyOrders(loaded)

\* loadSingleConfig passing over a file that NewKubeConfig cannot load.
loadSingleConfig_SkipsUnloadable(loaded, file) ==
    IF file.IsDir THEN [loaded |-> loaded, err |-> NoErr]
    ELSE IF HasDotDotPrefix(file.Name) THEN [loaded |-> loaded, err |-> NoErr]
    ELSE IF file.StatErr THEN [loaded |-> loaded, err |-> NoErr]
    ELSE IF file.StatIsDir THEN [loaded |-> loaded, err |-> NoErr]
    ELSE IF file.Body.err # NoError THEN [loaded |-> loaded, err |-> NoErr]
    ELSE [loaded |-> MapPut(loaded, ConfigName(file.Name), file.Body.doc),
          err |-> NoErr]

\* Server.loadSingleConfig(file): the index after it and the error it returns.
loadSingleConfig(loaded, file) ==
    IF file.IsDir THEN [loaded |-> loaded, err |-> NoErr]
    ELSE IF HasDotDotPrefix(file.Name) THEN [loaded |-> loaded, err |-> NoErr]
    ELSE IF file.StatErr THEN [loaded |-> loaded, err |-> NoErr]
    ELSE IF file.StatIsDir THEN [loaded |-> loaded, err |-> NoErr]
    ELSE IF file.Body.err # NoError
        THEN [loaded |-> loaded,
              err |-> Decorate(NewErr(<<Lit(file.Body.err)>>),
                               <<Lit("failed to load kubeconfig: "), Nm(file.Name)>>)]
    ELSE [loaded |-> MapPut(loaded, ConfigName(file.Name), file.Body.doc),
          err |-> NoErr]

\* The loop of loadAllConfigs from entry i: it returns at the first error.
RECURSIVE LoadFrom(_, _, _)
LoadFrom(loaded, entries, i) ==
    IF i > Len(entries) THEN [loaded |-> loaded, err |-> NoErr]
    ELSE LET r == loadSingleConfig(loaded, entries[i]) IN
         IF r.err # NoErr THEN r
         ELSE LoadFrom(r.loaded, entries, i + 1)

\* Server.loadAllConfigs over the entries os.ReadDir returned.
loadAllConfigs(entries) == LoadFrom(EmptyMap, entries, 1)

\* Server.validateConfigExists(name)
validateConfigExists(loaded, name) ==
    IF name \notin DOMAIN loaded
    THEN NewErr(<<Lit("kubeconfig not found: "), Nm(name)>>)
    ELSE NoErr

\* The loop of loadAndMergeConfigs going on to the next name when a name is
\* not in the store.
RECURSIVE MergeFrom_SkipsMissing(_, _, _, _)
MergeFrom_SkipsMissing(loaded, kubeConfig, names, i) ==
    IF i > Len(names) THEN [err |-> NoErr, doc |-> kubeConfig]
    ELSE IF validateConfigExists(loaded, names[i]) # NoErr
        THEN MergeFrom_SkipsMissing(loaded, kubeConfig, names, i + 1)
    ELSE LET m == mergeKubeConfigs(kubeConfig, loaded[names[i]]) IN
         IF m.err # NoError
         THEN [err |-> Decorate(NewErr(<<Lit(m.err)>>),
                                <<Lit("failed to merge kubeconfig: "), Nm(names[i])>>),
               doc |-> NilKubeConfig]
         ELSE MergeFrom_SkipsMissing(loaded, m.doc, names, i + 1)

\* loadAndMergeConfigs checking that every name is in the store before it
\* merges the first.
RECURSIVE MergeFrom_ChecksAllFirst(_, _, _, _)
MergeFrom_ChecksAllFirst(loaded, kubeConfig, names, i) ==
    IF i > Len(names) THEN [err |-> NoErr, doc |-> kubeConfig]
    ELSE IF i = 1 /\ \E j \in 1..Len(names) : names[j] \notin DOMAIN loaded
        THEN LET j == CHOOSE j \in 1..Len(names) :
                        /\ names[j] \notin DOMAIN loaded
                        /\ \A k \in 1..(j - 1) : names[k] \in DOMAIN loaded
             IN [err |-> validateConfigExists(loaded, names[j]), doc |-> NilKubeConfig]
    ELSE LET m == mergeKubeConfigs(kubeConfig, loaded[names[i]]) IN
         IF m.err # NoError
         THEN [err |-> Decorate(NewErr(<<Lit(m.err)>>),
                                <<Lit("failed to merge kubeconfig: "), Nm(names[i])>>),
               doc |-> NilKubeConfig]
         ELSE MergeFrom_ChecksAllFirst(loaded, m.doc, names, i + 1)

\* The loop of loadAndMergeConfigs from position i with accumulator kubeConfig.
RECURSIVE MergeFrom(_, _, _, _)
MergeFrom(loaded, kubeConfig, names, i) ==
    IF i > Len(names) THEN [err |-> NoErr, doc |-> kubeConfig]
    ELSE IF validateConfigExists(loaded, names[i]) # NoErr
        THEN [err |-> validateConfigExists(loaded, names[i]), doc |-> NilKubeConfig]
    ELSE LET m == mergeKubeConfigs(kubeConfig, loaded[names[i]]) IN
         IF m.err # NoError
         THEN [err |-> Decorate(NewErr(<<Lit(m.err)>>),
                                <<Lit("failed to merge kubeconfig: "), Nm(names[i])>>),
               doc |-> NilKubeConfig]
         ELSE MergeFrom(loaded, m.doc, names, i + 1)

\* Server.loadAndMergeConfigs(names)
loadAndMergeConfigs(loaded, names) == MergeFrom(loaded, NewKubeConfig, names, 1)

\* getRequestedConfigNames returning every config whatever was asked for.
getRequestedConfigNames_IgnoresNames(names, allConfigNames) == allConfigNames

\* getRequestedConfigNames without the default: no parameters, no names.
getRequestedConfigNames_KeepsEmpty(names, allConfigNames) == names

\* Server.getRequestedConfigNames(r, allConfigNames), names the parameters.
getRequestedConfigNames(names, allConfigNames) ==
    IF Len(names) = 0 THEN allConfigNames ELSE names

\* The loop of mergeAllConfigsForValidation over the map in the order `order`.
RECURSIVE ValidateFrom(_, _, _, _)
ValidateFrom(loaded, mergedConfig, order, i) ==
    IF i > Len(order) THEN NoErr
    ELSE LET m == mergeKubeConfigs(mergedConfig, loaded[order[i]]) IN
         IF m.err # NoError
         THEN Decorate(NewErr(<<Lit(m.err)>>),
                       <<Lit("failed to merge config '"), Nm(order[i]),
                         Lit("' during validation")>>)
         ELSE ValidateFrom(loaded, m.doc, order, i + 1)

\* validateAllConfigsMergeable refusing a store without configs.
validateAllConfigsMergeable_RejectsEmpty(loaded, order) ==
    IF Cardinality(DOMAIN loaded) = 0 THEN NewErr(<<Lit("no configs loaded")>>)
    ELSE ValidateFrom(loaded, NewKubeConfig, order, 1)

\* Server.validateAllConfigsMergeable, the map ranged over in `order`.
validateAllConfigsMergeable(loaded, order) ==
    IF Cardinality(DOMAIN loaded) = 0 THEN NoErr
    ELSE ValidateFrom(loaded, NewKubeConfig, order, 1)

\* The name parameters a get request of the model may carry.
RequestNames == {<<"a">>, <<"b">>, <<"not found">>, <<"zz">>}

RequestLists == UNION {[1..k -> RequestNames] : k \in 0..MaxReq}

NoResp == [status |-> 0, doc |-> NilKubeConfig, err |-> NoErr]

NoList == [status |-> 0, names |-> <<>>]

(***************************************************************************)
(* Memory.  A *KubeConfig points to a struct whose sections are slices: a  *)
(* backing array, a length and a capacity.  A reference is the pair of the *)
(* goroutine that allocated it (0: startup) and a number.                  *)
(***************************************************************************)
NilRef == <<0, 0>>

\* A nil slice.
NilSlice == [arr |-> NilRef, len |-> 0, cap |-> 0]

\* The zero value of an entry, in the cells of an array past every length.
ZeroEntry == [Name |-> ""]

\* No allocation yet; `foreign` records that a goroutine has written into
\* an array or a struct that another one allocated.
EmptyHeap ==
    [arrays |-> [r \in {} |-> <<>>], structs |-> [r \in {} |-> <<>>],
     foreign |-> FALSE]

\* The next free reference of `owner` in the heap map f.
NextRef(f, owner) ==
    <<owner, CHOOSE k \in 1..(Cardinality(DOMAIN f) + 1) :
                /\ <<owner, k>> \notin DOMAIN f
                /\ \A j \in 1..(k - 1) : <<owner, j>> \in DOMAIN f>>

\* s[0:len(s)]: the entries a slice shows.
SliceElems(h, s) ==
    IF s.len = 0 THEN <<>> ELSE SubSeq(h.arrays[s.arr], 1, s.len)

\* The document a pointer shows: *p with every slice read out.
View(h, p) ==
    LET k == h.structs[p] IN
    KubeConfig(k.ApiVersion, k.Kind, SliceElems(h, k.Clusters),
               SliceElems(h, k.Contexts), k.CurrentContext, SliceElems(h, k.Users))

\* The capacity append gives a new array: the needed length when that is
\* more than twice the old capacity, else twice the old capacity.
GrowCap(oldCap, needed) ==
    IF needed > 2 * oldCap THEN needed ELSE 2 * oldCap

\* append(s1, s2...) by goroutine `owner`: within the capacity of s1 the
\* entries are written into the array of s1, else a new array is allocated
\* and the entries of both are copied.  The heap after it and the slice.
AppendSlice(h, owner, s1, s2) ==
    LET n == s1.len + s2.len
        e1 == SliceElems(h, s1)
        e2 == SliceElems(h, s2)
    IN IF s2.len = 0 THEN [heap |-> h, slice |-> s1]
       ELSE IF n <= s1.cap
       THEN [heap |-> [h EXCEPT !.arrays[s1.arr] =
                          [i \in 1..s1.cap |->
                              IF i > s1.len /\ i <= n THEN e2[i - s1.len]
                              ELSE @[i]],
                       !.foreign = @ \/ s1.arr[1] # owner],
             slice |-> [arr |-> s1.arr, len |-> n, cap |-> s1.cap]]
       ELSE LET r == NextRef(h.arrays, owner)
                c == GrowCap(s1.cap, n)
            IN [heap |-> [h EXCEPT !.arrays =
                            MapPut(@, r, [i \in 1..c |->
                                IF i <= s1.len THEN e1[i]
                                ELSE IF i <= n THEN e2[i - s1.len]
                                ELSE ZeroEntry])],
                slice |-> [arr |-> r, len |-> n, cap |-> c]]

\* The struct of the result kept in one package-level variable instead of
\* being allocated by every call.
AllocStruct_Reuses(h, owner, k) ==
    [heap |-> [h EXCEPT !.structs = MapPut(@, <<-1, 1>>, k),
                        !.foreign = @ \/ <<-1, 1>> \in DOMAIN h.structs],
     ptr |-> <<-1, 1>>]

\* &KubeConfig{...} by goroutine `owner`: the heap after it and the pointer.
AllocStruct(h, owner, k) ==
    LET r == NextRef(h.structs, owner) IN
    [heap |-> [h EXCEPT !.structs = MapPut(@, r, k)], ptr |-> r]

\* mergeKubeConfigs starting from merged := config2 instead of a new struct.
mergeKubeConfigsPtr_IntoIncoming(h, owner, p1, p2) ==
    LET c1 == View(h, p1)
        c2 == View(h, p2)
        err == MergePreconditions(c1, c2)
        a1 == AppendSlice(h, owner, h.structs[p1].Clusters, h.structs[p2].Clusters)
        a2 == AppendSlice(a1.heap, owner, h.structs[p1].Contexts, h.structs[p2].Contexts)
        a3 == AppendSlice(a2.heap, owner, h.structs[p1].Users, h.structs[p2].Users)
    IN IF err # NoError THEN [heap |-> h, err |-> err, ptr |-> NilRef]
       ELSE [heap |-> [a3.heap EXCEPT !.structs[p2] =
                        [ApiVersion |-> MergedHeader(c1, c2).ApiVersion,
                         Kind |-> MergedHeader(c1, c2).Kind,
                         Clusters |-> a1.slice,
                         Contexts |-> a2.slice,
                         CurrentContext |-> MergedCurrentContext(c1, c2),
                         Users |-> a3.slice],
                       !.foreign = @ \/ p2[1] # owner],
             err |-> NoError, ptr |-> p2]

\* mergeKubeConfigs on pointers: the checks read the two documents, the
\* three appends run one after the other, the result is a new struct.
mergeKubeConfigsPtr(h, owner, p1, p2) ==
    LET c1 == View(h, p1)
        c2 == View(h, p2)
        err == MergePreconditions(c1, c2)
        a1 == AppendSlice(h, owner, h.structs[p1].Clusters, h.structs[p2].Clusters)
        a2 == AppendSlice(a1.heap, owner, h.structs[p1].Contexts, h.structs[p2].Contexts)
        a3 == AppendSlice(a2.heap, owner, h.structs[p1].Users, h.structs[p2].Users)
        m == AllocStruct(a3.heap, owner,
                [ApiVersion |-> MergedHeader(c1, c2).ApiVersion,
                 Kind |-> MergedHeader(c1, c2).Kind,
                 Clusters |-> a1.slice,
                 Contexts |-> a2.slice,
                 CurrentContext |-> MergedCurrentContext(c1, c2),
                 Users |-> a3.slice])
    IN IF err # NoError THEN [heap |-> h, err |-> err, ptr |-> NilRef]
       ELSE [heap |-> m.heap, err |-> NoError, ptr |-> m.ptr]

\* A section as yaml.Unmarshal leaves it: an array of exactly its entries.
StoreSlice(h, owner, entries) ==
    IF Len(entries) = 0 THEN [heap |-> h, slice |-> NilSlice]
    ELSE LET r == NextRef(h.arrays, owner) IN
         [heap |-> [h EXCEPT !.arrays = MapPut(@, r, entries)],
          slice |-> [arr |-> r, len |-> Len(entries), cap |-> Len(entries)]]

\* NewKubeConfig(filePath) on the heap for a file holding the document k.
StoreDoc(h, owner, k) ==
    LET a1 == StoreSlice(h, owner, k.Clusters)
        a2 == StoreSlice(a1.heap, owner, k.Contexts)
        a3 == StoreSlice(a2.heap, owner, k.Users)
        r == NextRef(a3.heap.structs, owner)
    IN [heap |-> [a3.heap EXCEPT !.structs = MapPut(@, r,
            [ApiVersion |-> k.ApiVersion, Kind |-> k.Kind, Clusters |-> a1.slice,
             Contexts |-> a2.slice, CurrentContext |-> k.CurrentContext,
             Users |-> a3.slice])],
        ptr |-> r]

\* The documents of `docs`, one after the other, on the heap h: the heap
\* and the pointers in the order of `docs`.
RECURSIVE StoreDocs(_, _, _)
StoreDocs(h, docs, ptrs) ==
    IF Len(ptrs) = Len(docs) THEN [heap |-> h, ptrs |-> ptrs]
    ELSE LET d == StoreDoc(h, 0, docs[Len(ptrs) + 1]) IN
         StoreDocs(d.heap, docs, Append(ptrs, d.ptr))

\* Memory and the requests on it, idle while another part runs.
HeapIdle ==
    /\ heap = EmptyHeap
    /\ apc = "off"
    /\ aArgs = <<>>
    /\ aRes = <<>>
    /\ aSeen = <<>>
    /\ ptrConfigs = EmptyMap
    /\ calls = <<>>
    /\ readyIndex = EmptyMap

\* The merge harness switched off.
HarnessIdle ==
    /\ config1 = NewKubeConfig
    /\ config2 = NewKubeConfig
    /\ merged = [err |-> NoError, doc |-> NilKubeConfig]
    /\ folded = <<>>
    /\ mpc = "off"

\* The store and the get request, idle while the merge harness runs.
ServerIdle ==
    /\ state = "Unloaded"
    /\ files = <<>>
    /\ loadIdx = 0
    /\ LoadedConfigs = EmptyMap
    /\ startErr = NoErr
    /\ req = <<>>
    /\ requested = <<>>
    /\ resp = NoResp
    /\ listed = NoList

(***************************************************************************)
(* The server: NewServer loads the directory entry by entry, validates     *)
(* that the loaded configs merge, and then serves get requests.            *)
(***************************************************************************)
Init ==
    /\ HarnessIdle
    /\ HeapIdle
    /\ state = "Unloaded"
    /\ files \in Directories
    /\ loadIdx = 0
    /\ LoadedConfigs = EmptyMap
    /\ startErr = NoErr
    /\ req = <<>>
    /\ requested = <<>>
    /\ resp = NoResp
    /\ listed = NoList

\* NewServer: LoadedConfigs: make(map[string]*KubeConfig); loadAllConfigs
\* finds the directory and reads its entries.
StartLoad ==
    /\ state = "Unloaded"
    /\ state' = "Loading"
    /\ LoadedConfigs' = EmptyMap
    /\ loadIdx' = 0
    /\ UNCHANGED <<files, startErr, req, requested, resp, listed>>
    /\ UNCHANGED mvars
    /\ UNCHANGED hvars

\* One round of the loop of loadAllConfigs; an error ends NewServer.
LoadNextFile ==
    /\ state = "Loading"
    /\ loadIdx < Len(files)
    /\ LET r == loadSingleConfig(LoadedConfigs, files[loadIdx + 1]) IN
        /\ LoadedConfigs' = r.loaded
        /\ loadIdx' = loadIdx + 1
        /\ IF r.err # NoErr
           THEN /\ state' = "Failed"
                /\ startErr' = Decorate(r.err, <<Lit("failed to load configs on startup")>>)
           ELSE UNCHANGED <<state, startErr>>
    /\ UNCHANGED <<files, req, requested, resp, listed>>
    /\ UNCHANGED mvars
    /\ UNCHANGED hvars

\* NewServer after loadAllConfigs: validateAllConfigsMergeable, then the
\* server is returned (the index template is found and parses).
ValidateMergeable ==
    /\ state = "Loading"
    /\ loadIdx = Len(files)
    /\ \E order \in KeyOrders(LoadedConfigs) :
        LET err == validateAllConfigsMergeable(LoadedConfigs, order) IN
        IF err # NoErr
        THEN /\ state' = "Failed"
             /\ startErr' = Decorate(err, <<Lit("configs cannot be merged together")>>)
        ELSE /\ state' = "Ready"
             /\ UNCHANGED startErr
    /\ UNCHANGED <<files, loadIdx, LoadedConfigs, req, requested, resp, listed>>
    /\ UNCHANGED mvars
    /\ UNCHANGED hvars

\* The orders of listConfigs that a request with the parameters `names` can
\* tell apart: getRequestedConfigNames drops the list when names are given.
ListOrders(loaded, names) ==
    IF Len(names) = 0 THEN listConfigs(loaded)
    ELSE {CHOOSE o \in listConfigs(loaded) : TRUE}

\* Server.HandleGetKubeConfigs for the name parameters `names`, listConfigs
\* yielding the keys in the order `order`; the encoder writes the document.
HandleGetKubeConfigs ==
    /\ state = "Ready"
    /\ resp = NoResp
    /\ listed = NoList
    /\ \E names \in RequestLists :
       \E order \in ListOrders(LoadedConfigs, names) :
        LET requestedNames == getRequestedConfigNames(names, order)
            r == loadAndMergeConfigs(LoadedConfigs, requestedNames)
        IN /\ req' = names
           /\ requested' = requestedNames
           /\ resp' = IF r.err # NoErr
                      THEN [status |-> getStatusCodeFromError(r.err),
                            doc |-> NilKubeConfig, err |-> r.err]
                      ELSE [status |-> StatusOK, doc |-> r.doc, err |-> NoErr]
    /\ UNCHANGED <<state, files, loadIdx, LoadedConfigs, startErr, listed>>
    /\ UNCHANGED mvars
    /\ UNCHANGED hvars

\* HandleListConfigs reading the directory again for the request.
HandleListConfigs_Rescans ==
    /\ state = "Ready"
    /\ resp = NoResp
    /\ listed = NoList
    /\ state' = "Loading"
    /\ loadIdx' = 0
    /\ LoadedConfigs' = EmptyMap
    /\ UNCHANGED <<files, startErr, req, requested, resp, listed>>
    /\ UNCHANGED mvars
    /\ UNCHANGED hvars

\* Server.HandleListConfigs: the encoder writes the names of listConfigs.
HandleListConfigs ==
    /\ state = "Ready"
    /\ resp = NoResp
    /\ listed = NoList
    /\ \E names \in listConfigs(LoadedConfigs) :
        listed' = [status |-> StatusOK, names |-> names]
    /\ UNCHANGED <<state, files, loadIdx, LoadedConfigs, startErr>>
    /\ UNCHANGED <<req, requested, resp>>
    /\ UNCHANGED mvars
    /\ UNCHANGED hvars

\* The handler has returned; the server waits for the next request.
HandlerReturns ==
    /\ state = "Ready"
    /\ (resp # NoResp \/ listed # NoList)
    /\ req' = <<>>
    /\ requested' = <<>>
    /\ resp' = NoResp
    /\ listed' = NoList
    /\ UNCHANGED <<state, files, loadIdx, LoadedConfigs, startErr>>
    /\ UNCHANGED mvars
    /\ UNCHANGED hvars

Next ==
    \/ StartLoad
    \/ LoadNextFile
    \/ ValidateMergeable
    \/ HandleGetKubeConfigs
    \/ HandleListConfigs
    \/ HandlerReturns

Spec == Init /\ [][Next]_vars

(***************************************************************************)
(* The merge harness: one call of mergeKubeConfigs on drawn arguments, and *)
(* the fold of loadAndMergeConfigs continued from the zero document.       *)
(***************************************************************************)
MergeInit ==
    /\ config1 \in AccDocs
    /\ config2 \in IncDocs
    /\ merged = [err |-> NoError, doc |-> NilKubeConfig]
    /\ folded = <<>>
    /\ mpc = "call"
    /\ ServerIdle
    /\ HeapIdle

\* merged, err := mergeKubeConfigs(config1, config2)
CallMerge ==
    /\ mpc = "call"
    /\ merged' = mergeKubeConfigs(config1, config2)
    /\ mpc' = "done"
    /\ UNCHANGED <<config1, config2, folded>>
    /\ UNCHANGED svars
    /\ UNCHANGED hvars

\* kubeConfig, err = mergeKubeConfigs(kubeConfig, kubeConfigNew): the next
\* round of the loop of loadAndMergeConfigs, which starts from NewKubeConfig.
FoldNext ==
    /\ mpc = "done"
    /\ merged.err = NoError
    /\ Len(folded) + 1 < MaxFold
    /\ folded = <<>> => config1 = NewKubeConfig
    /\ \E d \in IncDocs :
        /\ config1' = merged.doc
        /\ config2' = d
        /\ merged' = mergeKubeConfigs(merged.doc, d)
    /\ folded' = Append(folded, config2)
    /\ UNCHANGED mpc
    /\ UNCHANGED svars
    /\ UNCHANGED hvars

MergeNext == CallMerge \/ FoldNext

MergeSpec == MergeInit /\ [][MergeNext]_vars

(***************************************************************************)
(* Two calls of mergeKubeConfigs on one accumulator, on pointers: the      *)
(* accumulator is built as loadAndMergeConfigs builds it, from the zero    *)
(* document by merges, and is then the first argument of two calls.        *)
(***************************************************************************)
\* The documents the calls take their second argument from.
HeapDocs == <<DocDev, DocProd, DocBare, DocClash, DocSeven, NewKubeConfig>>

AppendInit ==
    LET d == StoreDocs(EmptyHeap, HeapDocs, <<>>)
        z == StoreDoc(d.heap, 1, NewKubeConfig)
    IN /\ heap = z.heap
       /\ apc = "build"
       /\ aArgs = [docs |-> d.ptrs, config1 |-> z.ptr,
                   config2 |-> NilRef, config2b |-> NilRef]
       /\ aRes = <<>>
       /\ aSeen = <<>>
       /\ ptrConfigs = EmptyMap
       /\ calls = <<>>
       /\ readyIndex = EmptyMap
       /\ HarnessIdle
       /\ ServerIdle

\* kubeConfig, err = mergeKubeConfigs(kubeConfig, kubeConfigNew): one more
\* round of the loop that builds the accumulator.
BuildNext ==
    /\ apc = "build"
    /\ Len(View(heap, aArgs.config1).Clusters) < MaxBuild
    /\ \E i \in 1..Len(aArgs.docs) :
        LET r == mergeKubeConfigsPtr(heap, 1, aArgs.config1, aArgs.docs[i]) IN
        /\ r.err = NoError
        /\ heap' = r.heap
        /\ aArgs' = [aArgs EXCEPT !.config1 = r.ptr]
    /\ UNCHANGED <<apc, aRes, aSeen, ptrConfigs, calls, readyIndex>>
    /\ UNCHANGED mvars
    /\ UNCHANGED svars

\* first, err := mergeKubeConfigs(config1, config2)
CallFirst ==
    /\ apc = "build"
    /\ \E i \in 1..Len(aArgs.docs) :
        LET r == mergeKubeConfigsPtr(heap, 1, aArgs.config1, aArgs.docs[i]) IN
        /\ heap' = r.heap
        /\ aArgs' = [aArgs EXCEPT !.config2 = aArgs.docs[i]]
        /\ aRes' = <<[err |-> r.err, ptr |-> r.ptr]>>
        /\ aSeen' = [config1 |-> View(heap, aArgs.config1),
                     config2 |-> View(heap, aArgs.docs[i]),
                     first |-> IF r.err = NoError THEN View(r.heap, r.ptr)
                               ELSE NilKubeConfig]
    /\ apc' = "second"
    /\ UNCHANGED <<ptrConfigs, calls, readyIndex>>
    /\ UNCHANGED mvars
    /\ UNCHANGED svars

\* second, err := mergeKubeConfigs(config1, config2b)
CallSecond ==
    /\ apc = "second"
    /\ \E i \in 1..Len(aArgs.docs) :
        LET r == mergeKubeConfigsPtr(heap, 1, aArgs.config1, aArgs.docs[i]) IN
        /\ heap' = r.heap
        /\ aArgs' = [aArgs EXCEPT !.config2b = aArgs.docs[i]]
        /\ aRes' = Append(aRes, [err |-> r.err, ptr |-> r.ptr])
    /\ apc' = "done"
    /\ UNCHANGED <<aSeen, ptrConfigs, calls, readyIndex>>
    /\ UNCHANGED mvars
    /\ UNCHANGED svars

AppendNext == BuildNext \/ CallFirst \/ CallSecond

AppendSpec == AppendInit /\ [][AppendNext]_vars

(***************************************************************************)
(* The returned server on pointers: goroutines serve get and list requests *)
(* at the same time, a get request one merge at a time.                    *)
(***************************************************************************)
Goroutines == {1, 2}

\* The stores the server is returned with: the subsets of three files that
\* pass validateAllConfigsMergeable in some order of the map.
ServeStores ==
    LET all == [n \in {<<"a">>, <<"b">>, <<"c">>} |->
                    IF n = <<"a">> THEN DocDev
                    ELSE IF n = <<"b">> THEN DocProd ELSE DocClash]
    IN {m \in {[n \in S |-> all[n]] : S \in SUBSET DOMAIN all} :
            \E o \in KeyOrders(m) : validateAllConfigsMergeable(m, o) = NoErr}

\* The name parameters a get request served concurrently may carry.
ServeRequestLists == UNION {[1..k -> {<<"a">>, <<"c">>, <<"zz">>}] : k \in 0..MaxConcReq}

\* A goroutine that serves no request.
IdleCall ==
    [pc |-> "idle", kind |-> "", params |-> <<>>, names |-> <<>>, i |-> 0,
     kubeConfig |-> NilRef, err |-> NoErr, out |-> NilKubeConfig]

ServeInit ==
    /\ \E m \in ServeStores :
        LET o == CHOOSE o \in KeyOrders(m) : TRUE
            d == StoreDocs(EmptyHeap, [i \in 1..Len(o) |-> m[o[i]]], <<>>)
        IN /\ heap = d.heap
           /\ ptrConfigs = [n \in DOMAIN m |->
                               d.ptrs[CHOOSE i \in 1..Len(o) : o[i] = n]]
           /\ readyIndex = m
    /\ calls = [g \in Goroutines |-> IdleCall]
    /\ apc = "off"
    /\ aArgs = <<>>
    /\ aRes = <<>>
    /\ aSeen = <<>>
    /\ HarnessIdle
    /\ ServerIdle

\* HandleGetKubeConfigs up to the loop of loadAndMergeConfigs: listConfigs,
\* getRequestedConfigNames, NewKubeConfig("").
BeginGet(g) ==
    /\ calls[g].pc = "idle"
    /\ \E params \in ServeRequestLists :
       \E order \in ListOrders(ptrConfigs, params) :
        LET z == StoreDoc(heap, g, NewKubeConfig) IN
        /\ heap' = z.heap
        /\ calls' = [calls EXCEPT ![g] =
                [IdleCall EXCEPT !.pc = "merge", !.kind = "get", !.params = params,
                                 !.names = getRequestedConfigNames(params, order),
                                 !.i = 1, !.kubeConfig = z.ptr]]
    /\ UNCHANGED <<apc, aArgs, aRes, aSeen, ptrConfigs, readyIndex>>
    /\ UNCHANGED mvars
    /\ UNCHANGED svars

\* One round of the loop of loadAndMergeConfigs.
MergeNextName(g) ==
    /\ calls[g].pc = "merge"
    /\ calls[g].i <= Len(calls[g].names)
    /\ LET c == calls[g]
           name == c.names[c.i]
           m == mergeKubeConfigsPtr(heap, g, c.kubeConfig, ptrConfigs[name])
       IN IF validateConfigExists(ptrConfigs, name) # NoErr
          THEN /\ calls' = [calls EXCEPT ![g].pc = "done",
                                         ![g].err = validateConfigExists(ptrConfigs, name)]
               /\ UNCHANGED heap
          ELSE IF m.err # NoError
          THEN /\ calls' = [calls EXCEPT ![g].pc = "done",
                    ![g].err = Decorate(NewErr(<<Lit(m.err)>>),
                                  <<Lit("failed to merge kubeconfig: "), Nm(name)>>)]
               /\ UNCHANGED heap
          ELSE /\ calls' = [calls EXCEPT ![g].kubeConfig = m.ptr, ![g].i = c.i + 1]
               /\ heap' = m.heap
    /\ UNCHANGED <<apc, aArgs, aRes, aSeen, ptrConfigs, readyIndex>>
    /\ UNCHANGED mvars
    /\ UNCHANGED svars

\* The loop is over: the encoder reads the merged document.
EncodeMerged(g) ==
    /\ calls[g].pc = "merge"
    /\ calls[g].i > Len(calls[g].names)
    /\ calls' = [calls EXCEPT ![g].pc = "done",
                              ![g].out = View(heap, calls[g].kubeConfig)]
    /\ UNCHANGED <<heap, apc, aArgs, aRes, aSeen, ptrConfigs, readyIndex>>
    /\ UNCHANGED mvars
    /\ UNCHANGED svars

\* HandleListConfigs: listConfigs ranges over the map, the encoder writes.
ServeList(g) ==
    /\ calls[g].pc = "idle"
    /\ \E order \in listConfigs(ptrConfigs) :
        calls' = [calls EXCEPT ![g] =
            [IdleCall EXCEPT !.pc = "done", !.kind = "list", !.names = order]]
    /\ UNCHANGED <<heap, apc, aArgs, aRes, aSeen, ptrConfigs, readyIndex>>
    /\ UNCHANGED mvars
    /\ UNCHANGED svars

\* The handler returns; what the goroutine allocated is garbage.
ServeReturns(g) ==
    /\ calls[g].pc = "done"
    /\ calls' = [calls EXCEPT ![g] = IdleCall]
    /\ heap' = [heap EXCEPT
            !.arrays = [r \in {x \in DOMAIN @ : x[1] # g} |-> @[r]],
            !.structs = [r \in {x \in DOMAIN @ : x[1] # g} |-> @[r]]]
    /\ UNCHANGED <<apc, aArgs, aRes, aSeen, ptrConfigs, readyIndex>>
    /\ UNCHANGED mvars
    /\ UNCHANGED svars

ServeNext ==
    \E g \in Goroutines :
        \/ BeginGet(g)
        \/ MergeNextName(g)
        \/ EncodeMerged(g)
        \/ ServeList(g)
        \/ ServeReturns(g)

ServeSpec == ServeInit /\ [][ServeNext]_vars

(***************************************************************************)
(* Properties of mergeKubeConfigs, checked under MergeSpec.                *)
(***************************************************************************)
\* The call has returned.
Returned == mpc = "done"

\* The call has returned a document.
Succeeded == mpc = "done" /\ merged.err = NoError

\* r is a followed by b, entry by entry.
Concatenates(r, a, b) ==
    /\ Len(r) = Len(a) + Len(b)
    /\ \A i \in 1..Len(a) : r[i] = a[i]
    /\ \A j \in 1..Len(b) : r[Len(a) + j] = b[j]

\* The first names of a section of the accumulator and of the incoming
\* document collide.
Collides(mine, others) ==
    Len(mine) >= 1 /\ Len(others) >= 1 /\ mine[1].Name = others[1].Name

\* C2: whenever the merge succeeds, each section of the result is the
\* accumulator's section followed by the incoming one: every entry of the
\* accumulator keeps its position and content, the incoming entries follow,
\* nothing is dropped or reordered.
C2_AppendOnly ==
    Succeeded =>
        /\ Concatenates(merged.doc.Clusters, config1.Clusters, config2.Clusters)
        /\ Concatenates(merged.doc.Contexts, config1.Contexts, config2.Contexts)
        /\ Concatenates(merged.doc.Users, config1.Users, config2.Users)

C2_Witness ==
    /\ Succeeded
    /\ Len(config1.Clusters) = 2
    /\ Len(config1.Contexts) >= 1
    /\ Len(config1.Users) = 2
    /\ Len(merged.doc.Users) = 3

\* C3: whatever the accumulator, the merge fails and returns no document
\* when a section of the incoming document is empty or has two or more
\* entries.
C3_RejectsEmptyOrMultiple ==
    (/\ Returned
     /\ \/ Len(config2.Clusters) # 1
        \/ Len(config2.Contexts) # 1
        \/ Len(config2.Users) # 1)
    => (merged.err # NoError /\ merged.doc = NilKubeConfig)

C3_Witness ==
    /\ Returned
    /\ Len(config1.Clusters) >= 1
    /\ ~Collides(config1.Clusters, config2.Clusters)
    /\ ~Collides(config1.Contexts, config2.Contexts)
    /\ ~Collides(config1.Users, config2.Users)
    /\ Len(config2.Clusters) = 1
    /\ Len(config2.Contexts) = 1
    /\ Len(config2.Users) = 2
    /\ merged.err # NoError

\* C4: for an incoming document with exactly one cluster, context and user,
\* if the name of its cluster (context, user) is the name of the first
\* cluster (context, user) the accumulator already has, the merge fails with
\* a duplicate-name error, whatever the other two sections hold.
C4_FirstEntryCollisionFails ==
    (/\ Returned
     /\ SingleEntry(config2)
     /\ \/ Collides(config1.Clusters, config2.Clusters)
        \/ Collides(config1.Contexts, config2.Contexts)
        \/ Collides(config1.Users, config2.Users))
    => (ErrKind(merged.err) = "DuplicateName" /\ merged.doc = NilKubeConfig)

C4_Witness ==
    /\ Returned
    /\ SingleEntry(config2)
    /\ Len(config1.Clusters) = 2
    /\ ~Collides(config1.Clusters, config2.Clusters)
    /\ ~Collides(config1.Contexts, config2.Contexts)
    /\ Collides(config1.Users, config2.Users)
    /\ merged.err = "kubeconfig has duplicate user name"

C6_KeepsConfig1Context ==
    (Succeeded /\ config1.CurrentContext # "")
    => merged.doc.CurrentContext = config1.CurrentContext

\* The two documents of a fold of two from the zero document: d was merged
\* into NewKubeConfig, d2 into the result.
FoldOfTwo == mpc = "done" /\ Len(folded) = 1

C8_EmptyIsLeftIdentity ==
    (/\ Returned
     /\ config1 = KubeConfig("", "", <<>>, <<>>, "", <<>>)
     /\ SingleEntry(config2))
    => /\ merged.err = NoError
       /\ merged.doc = KubeConfig("v1", "Config", config2.Clusters,
                                  config2.Contexts, config2.CurrentContext,
                                  config2.Users)

C8_Witness ==
    /\ Returned
    /\ config1 = KubeConfig("", "", <<>>, <<>>, "", <<>>)
    /\ SingleEntry(config2)
    /\ config2.ApiVersion = "v2"
    /\ config2.CurrentContext = "inc-context"
    /\ merged.err = NoError
    /\ merged.doc.ApiVersion = "v1"

\* What the incoming document violates.
IncomingHasEmptySection ==
    Len(config2.Clusters) = 0 \/ Len(config2.Contexts) = 0 \/ Len(config2.Users) = 0
IncomingHasMultipleEntries ==
    Len(config2.Clusters) > 1 \/ Len(config2.Contexts) > 1 \/ Len(config2.Users) > 1
IncomingCollides ==
    \/ Collides(config1.Clusters, config2.Clusters)
    \/ Collides(config1.Contexts, config2.Contexts)
    \/ Collides(config1.Users, config2.Users)

\* C9, as claimed: the preconditions are checked in the order EmptySection,
\* MultipleEntries, DuplicateName and the first one violated is reported:
\* an incoming document with two or more entries in a section and a first
\* name equal to the accumulator's fails with MultipleEntries.
C9_Original ==
    Returned =>
        ErrKind(merged.err) =
            IF IncomingHasEmptySection THEN "EmptySection"
            ELSE IF IncomingHasMultipleEntries THEN "MultipleEntries"
            ELSE IF IncomingCollides THEN "DuplicateName"
            ELSE "none"

\* C9, amended: the preconditions are checked in the order EmptySection,
\* DuplicateName, MultipleEntries and the first one violated is reported:
\* an incoming document with two or more entries in a section and a first
\* name equal to the accumulator's fails with DuplicateName.
C9_CheckOrder ==
    Returned =>
        ErrKind(merged.err) =
            IF IncomingHasEmptySection THEN "EmptySection"
            ELSE IF IncomingCollides THEN "DuplicateName"
            ELSE IF IncomingHasMultipleEntries THEN "MultipleEntries"
            ELSE "none"

C9_Witness ==
    /\ Returned
    /\ Len(config2.Clusters) = 2
    /\ Len(config2.Contexts) = 1
    /\ Len(config2.Users) = 1
    /\ Collides(config1.Clusters, config2.Clusters)
    /\ merged.err = "kubeconfig has duplicate cluster name"

(***************************************************************************)
(* Properties of the get request, checked under Spec.                      *)
(***************************************************************************)
\* The request was answered with a document.
Resolved == state = "Ready" /\ resp.status = 200

\* The names the request resolves: the parameters, or every stored name as
\* listConfigs yielded them when there are no parameters.
ResolvedNames == IF Len(req) = 0 THEN requested ELSE req

\* C1: a successful request returns exactly one cluster, context and user
\* per resolved name, the i-th of each being that of the document stored
\* under the i-th name; with no parameters that is one of each per stored
\* config, with a single name exactly one of each.
C1_ResolveFoldsInOrder ==
    Resolved =>
        /\ Len(resp.doc.Clusters) = Len(ResolvedNames)
        /\ Len(resp.doc.Contexts) = Len(ResolvedNames)
        /\ Len(resp.doc.Users) = Len(ResolvedNames)
        /\ \A i \in 1..Len(ResolvedNames) :
            /\ ResolvedNames[i] \in DOMAIN LoadedConfigs
            /\ SingleEntry(LoadedConfigs[ResolvedNames[i]])
            /\ resp.doc.Clusters[i] = LoadedConfigs[ResolvedNames[i]].Clusters[1]
            /\ resp.doc.Contexts[i] = LoadedConfigs[ResolvedNames[i]].Contexts[1]
            /\ resp.doc.Users[i] = LoadedConfigs[ResolvedNames[i]].Users[1]
        /\ Len(req) = 0 =>
            /\ Len(resp.doc.Clusters) = Cardinality(DOMAIN LoadedConfigs)
            /\ \A n \in DOMAIN LoadedConfigs :
                \E i \in 1..Len(requested) : requested[i] = n
        /\ Len(req) = 1 => Len(resp.doc.Clusters) = 1

C1_Witness ==
    /\ Resolved
    /\ Len(req) = 0
    /\ Cardinality(DOMAIN LoadedConfigs) = 3
    /\ Len(resp.doc.Clusters) = 3
    /\ requested[1] = <<"c">>

\* C10: every document a successful request hands to the encoder has
\* apiVersion "v1" and kind "Config", also when no document was folded.
C10_HeaderAlwaysConstant ==
    Resolved => (resp.doc.ApiVersion = "v1" /\ resp.doc.Kind = "Config")

(***************************************************************************)
(* Properties of the resolver's failures, checked under Spec.              *)
(***************************************************************************)
\* A get request has been answered.
Answered == state = "Ready" /\ resp # NoResp

\* The positions of the resolved names that are not in the store.
AbsentPositions ==
    {i \in 1..Len(ResolvedNames) : ResolvedNames[i] \notin DOMAIN LoadedConfigs}

FirstAbsent ==
    CHOOSE i \in AbsentPositions : \A j \in AbsentPositions : i <= j

\* The error of validateConfigExists for the name n.
IsNotFoundError(err, n) ==
    err.text = <<Lit("kubeconfig not found: "), Nm(n)>>

\* The error of loadAndMergeConfigs for a failed merge of the name n.
IsMergeError(err, n) ==
    /\ Len(err.text) = 4
    /\ err.text[1] = Lit("failed to merge kubeconfig: ")
    /\ err.text[2] = Nm(n)
    /\ err.text[3] = Lit(", cause: ")

\* C11, as claimed: whenever the resolved names hold a name that is not in
\* the store, the request fails with the not-found error, no document is
\* returned and the store is what loading made it.
C11_Original ==
    (Answered /\ AbsentPositions # {}) =>
        /\ \E i \in AbsentPositions : IsNotFoundError(resp.err, ResolvedNames[i])
        /\ resp.doc = NilKubeConfig
        /\ LoadedConfigs = loadAllConfigs(files).loaded

\* C11, amended: whenever the resolved names hold a name that is not in the
\* store, the request fails, no document is returned and the store is what
\* loading made it; the error is the not-found error of the first absent
\* name, unless the merge of a name before it fails, and then it is the
\* merge error of that name.
C11_AbsentNameFails ==
    (Answered /\ AbsentPositions # {}) =>
        /\ resp.status # StatusOK
        /\ resp.doc = NilKubeConfig
        /\ LoadedConfigs = loadAllConfigs(files).loaded
        /\ \/ IsNotFoundError(resp.err, ResolvedNames[FirstAbsent])
           \/ \E j \in 1..(FirstAbsent - 1) : IsMergeError(resp.err, ResolvedNames[j])

C11_Witness ==
    /\ Answered
    /\ req = <<<<"a">>, <<"zz">>, <<"b">>>>
    /\ <<"a">> \in DOMAIN LoadedConfigs
    /\ <<"b">> \in DOMAIN LoadedConfigs
    /\ resp.status = StatusNotFound
    /\ IsNotFoundError(resp.err, <<"zz">>)

\* What the request returned: the error and the document.
Outcome == [err |-> resp.err, doc |-> resp.doc]

\* C12, as claimed: a request without name parameters has the outcome of
\* the request that names every stored config once, whatever the order in
\* which it names them.
C12_Original ==
    (Answered /\ Len(req) = 0) =>
        \A o \in KeyOrders(LoadedConfigs) :
            Outcome = loadAndMergeConfigs(LoadedConfigs, o)

\* C12, amended: a request without name parameters resolves every stored
\* name once, in the order in which listConfigs yielded them for this
\* request, and has the outcome of the request that names them explicitly
\* in that order.
C12_EmptyMeansListed ==
    (Answered /\ Len(req) = 0) =>
        /\ requested \in KeyOrders(LoadedConfigs)
        /\ Outcome = loadAndMergeConfigs(LoadedConfigs, requested)

C12_Witness ==
    /\ Answered
    /\ Len(req) = 0
    /\ Cardinality(DOMAIN LoadedConfigs) = 3
    /\ resp.status = StatusInternalServerError
    /\ \E o \in KeyOrders(LoadedConfigs) :
        loadAndMergeConfigs(LoadedConfigs, o).err = NoErr

\* The request failed with the error of validateConfigExists.
FailedNotFound ==
    \E i \in 1..Len(ResolvedNames) : IsNotFoundError(resp.err, ResolvedNames[i])

\* C13: the status of an answered get request is 404 exactly when the
\* resolver failed with the not-found error, 500 when it failed with any
\* other error, whatever the names of the stored configs, and 200 exactly
\* when it returned a document.
C13_StatusByErrorKind ==
    Answered =>
        /\ resp.status = StatusNotFound <=> FailedNotFound
        /\ (resp.err # NoErr /\ ~FailedNotFound)
            => resp.status = StatusInternalServerError
        /\ resp.status = StatusOK <=> resp.err = NoErr

(***************************************************************************)
(* Properties of a validated store, checked under Spec.                    *)
(***************************************************************************)
\* C14: once validation has passed and the store is Ready, every two
\* distinct stored names resolve together: the request naming a, then b,
\* succeeds.
C14_PairwiseMergeable ==
    state = "Ready" =>
        \A a, b \in DOMAIN LoadedConfigs :
            a # b => loadAndMergeConfigs(LoadedConfigs, <<a, b>>).err = NoErr

\* The names of the entries of a section are pairwise distinct.
DistinctNames(entries) ==
    \A i, j \in 1..Len(entries) : i # j => entries[i].Name # entries[j].Name

\* C15: in every document a successful request returns, also for three or
\* more names and for a name given twice, the cluster names are pairwise
\* distinct.
C15_ClusterNamesDistinct ==
    Resolved => DistinctNames(resp.doc.Clusters)

\* Every stored document's current-context names that document's context.
StoreNamesOwnContexts ==
    \A n \in DOMAIN LoadedConfigs :
        /\ Len(LoadedConfigs[n].Contexts) = 1
        /\ LoadedConfigs[n].CurrentContext = LoadedConfigs[n].Contexts[1].Name

\* C16: when every stored document's current-context names its own
\* context, the current-context of every document a successful request
\* returns is empty or the name of a context of that document.
C16_CurrentContextResolves ==
    (Resolved /\ StoreNamesOwnContexts) =>
        \/ resp.doc.CurrentContext = ""
        \/ \E i \in 1..Len(resp.doc.Contexts) :
            resp.doc.Contexts[i].Name = resp.doc.CurrentContext

(***************************************************************************)
(* Properties of loading, checked under Spec.                              *)
(***************************************************************************)
\* The entry is a file that loading does not pass over: not a directory,
\* not named "..", and os.Stat finds a file.
NotSkipped(f) ==
    /\ ~f.IsDir
    /\ ~(Len(f.Name) >= 2 /\ f.Name[1] = "." /\ f.Name[2] = ".")
    /\ ~f.StatErr
    /\ ~f.StatIsDir

\* The positions of the files that are not passed over and cannot be read
\* or parsed.
BadPositions ==
    {i \in 1..Len(files) : NotSkipped(files[i]) /\ files[i].Body.err # NoError}

FirstBad == CHOOSE i \in BadPositions : \A j \in BadPositions : i <= j

\* C17: when a file that is not passed over cannot be read or parsed,
\* loading goes no further than the first such file, construction fails
\* there with an error that names the file and its cause, the store never
\* becomes Ready and no request is ever answered.
C17_LoadAllOrNothing ==
    BadPositions # {} =>
        /\ state # "Ready"
        /\ resp = NoResp
        /\ loadIdx <= FirstBad
        /\ state = "Failed" <=> loadIdx = FirstBad
        /\ state = "Failed" =>
            /\ \E k \in 1..Len(startErr.text) :
                startErr.text[k] = Nm(files[FirstBad].Name)
            /\ \E k \in 1..Len(startErr.text) :
                startErr.text[k] = Lit(files[FirstBad].Body.err)

C17_Witness ==
    /\ BadPositions # {}
    /\ state = "Failed"
    /\ files[FirstBad].Body.err = "can't read kubeconfig file"
    /\ Cardinality(DOMAIN LoadedConfigs) = 2
    /\ Len(files) > FirstBad

\* loadAllConfigs has gone through every entry without an error.
LoadSucceeded ==
    /\ state # "Unloaded"
    /\ loadIdx = Len(files)
    /\ BadPositions = {}

\* The positions of the files that were loaded.
LoadedPositions == {i \in 1..Len(files) : NotSkipped(files[i])}

\* C18: after a successful load the index has as many entries as files
\* were loaded, and the document of every loaded file is still in it, also
\* when two file names differ only in their extension.
C18_OneKeyPerFile ==
    LoadSucceeded =>
        /\ Cardinality(DOMAIN LoadedConfigs) = Cardinality(LoadedPositions)
        /\ \A i \in LoadedPositions :
            \E n \in DOMAIN LoadedConfigs : LoadedConfigs[n] = files[i].Body.doc

\* The file name without its extension: what precedes its last dot, or all
\* of it when it has no dot.
Stem(fileName) ==
    IF \E k \in 1..Len(fileName) : fileName[k] = "."
    THEN LET k == CHOOSE k \in 1..Len(fileName) :
                    /\ fileName[k] = "."
                    /\ \A j \in (k + 1)..Len(fileName) : fileName[j] # "."
         IN SubSeq(fileName, 1, k - 1)
    ELSE fileName

\* The entries loading has gone through that are files it does not pass
\* over and that parse.
ParsedPositions ==
    {i \in 1..loadIdx : NotSkipped(files[i]) /\ files[i].Body.err = NoError}

\* C19: every key of the index is the name, without its extension, of a
\* file that is neither a directory nor named ".."; and every such file
\* that parses is in the index under that key, whatever its extension.
C19_IndexedUnderStem ==
    /\ \A n \in DOMAIN LoadedConfigs :
        \E i \in ParsedPositions : Stem(files[i].Name) = n
    /\ \A i \in ParsedPositions :
        /\ Stem(files[i].Name) \in DOMAIN LoadedConfigs
        /\ LoadedConfigs[Stem(files[i].Name)] = files[i].Body.doc

(***************************************************************************)
(* Properties of the list handler, checked under Spec.                     *)
(***************************************************************************)
\* A list request has been answered.
Listed == state = "Ready" /\ listed # NoList

\* C20: the names a list request returns are the loaded config names,
\* each exactly once and no other name, in whatever order.
C20_ListIsExactlyTheKeys ==
    Listed =>
        /\ listed.status = StatusOK
        /\ \A i \in 1..Len(listed.names) : listed.names[i] \in DOMAIN LoadedConfigs
        /\ \A n \in DOMAIN LoadedConfigs :
            Cardinality({i \in 1..Len(listed.names) : listed.names[i] = n}) = 1

C20_Witness ==
    /\ Listed
    /\ Cardinality(DOMAIN LoadedConfigs) = 3
    /\ listed.names[1] = <<"not found">>
    /\ listed.names[3] = <<"a">>

(***************************************************************************)
(* Properties of the store's lifecycle, checked under Spec.                *)
(***************************************************************************)
\* C21: the state changes only from Unloaded to Loading and from Loading to
\* Ready or Failed, so Ready and Failed are never left and Loading is never
\* entered again; and a get or list request is answered only while the
\* store is Ready.
C21_Lifecycle ==
    [][/\ state' # state =>
            \/ state = "Unloaded" /\ state' = "Loading"
            \/ state = "Loading" /\ state' \in {"Ready", "Failed"}
       /\ (resp' # resp \/ listed' # listed \/ req' # req) =>
            (state = "Ready" /\ state' = "Ready")]_vars

C21_Witness ==
    /\ state = "Ready"
    /\ listed # NoList
    /\ Cardinality(DOMAIN LoadedConfigs) = 2
    /\ loadIdx = 4

\* Startup has ended after loadAllConfigs went through every entry.
StartupEnded ==
    /\ state \in {"Ready", "Failed"}
    /\ loadIdx = Len(files)
    /\ BadPositions = {}

\* What the get handler answers when listConfigs yields the keys in `order`.
AnswerFor(order) ==
    LET r == loadAndMergeConfigs(LoadedConfigs, getRequestedConfigNames(req, order))
    IN IF r.err # NoErr
       THEN [status |-> getStatusCodeFromError(r.err), doc |-> NilKubeConfig,
             err |-> r.err]
       ELSE [status |-> StatusOK, doc |-> r.doc, err |-> NoErr]

\* C24: the outcome does not depend on the order in which the index is
\* ranged over: whatever that order, startup on this directory ends in the
\* state it ended in, Failed with the same error, and the request that was
\* answered gets the same document or the same error.
C24_Deterministic ==
    /\ StartupEnded =>
        \A o \in KeyOrders(LoadedConfigs) :
            LET err == validateAllConfigsMergeable(LoadedConfigs, o) IN
            IF state = "Ready" THEN err = NoErr
            ELSE /\ err # NoErr
                 /\ startErr = Decorate(err, <<Lit("configs cannot be merged together")>>)
    /\ Answered =>
        \A o \in KeyOrders(LoadedConfigs) : AnswerFor(o) = resp

(***************************************************************************)
(* More properties of mergeKubeConfigs, checked under MergeSpec.           *)
(***************************************************************************)
\* The incoming cluster has the name of a cluster of the accumulator that
\* is not its first.
RepeatsLaterCluster ==
    /\ Len(config1.Clusters) >= 2
    /\ Len(config2.Clusters) = 1
    /\ \E i \in 2..Len(config1.Clusters) :
        config1.Clusters[i].Name = config2.Clusters[1].Name

PrefixOutcome(p) ==
    loadAndMergeConfigs(LoadedConfigs, SubSeq(ResolvedNames, 1, p))

\* The names before position p resolve, and the name at p is not in the
\* store or does not merge into their document.
FailsAt(p) ==
    /\ PrefixOutcome(p - 1).err = NoErr
    /\ \/ ResolvedNames[p] \notin DOMAIN LoadedConfigs
       \/ mergeKubeConfigs(PrefixOutcome(p - 1).doc,
                           LoadedConfigs[ResolvedNames[p]]).err # NoError

\* C26: the names are resolved in the given order and the request stops at
\* the first position whose name is absent or does not merge: the error is
\* the not-found error or the merge error of the name at that position,
\* and the names after it do not matter to the outcome.
C26_StopsAtFirstFailure ==
    Answered =>
        /\ resp.err = NoErr => \A p \in 1..Len(ResolvedNames) : ~FailsAt(p)
        /\ resp.err # NoErr =>
            \E p \in 1..Len(ResolvedNames) :
                /\ FailsAt(p)
                /\ Outcome = PrefixOutcome(p)
                /\ IF ResolvedNames[p] \notin DOMAIN LoadedConfigs
                   THEN IsNotFoundError(resp.err, ResolvedNames[p])
                   ELSE /\ IsMergeError(resp.err, ResolvedNames[p])
                        /\ resp.err.text[4] =
                            Lit(mergeKubeConfigs(PrefixOutcome(p - 1).doc,
                                                 LoadedConfigs[ResolvedNames[p]]).err)

C26_Witness ==
    /\ Answered
    /\ Len(req) = 3
    /\ req[1] = req[2]
    /\ req[3] \notin DOMAIN LoadedConfigs
    /\ IsMergeError(resp.err, req[2])

\* C27: on a store that passed validation, the request without name
\* parameters, which merges every stored config, is answered with a
\* document, whatever the order in which listConfigs yields the names.
C27_ValidatedStoreResolvesAll ==
    (Answered /\ Len(req) = 0) => resp.status = StatusOK

\* The files that are not passed over and hold a document with a section
\* that is empty or has two or more entries.
MalformedPositions ==
    {i \in 1..Len(files) :
        /\ NotSkipped(files[i])
        /\ files[i].Body.err = NoError
        /\ ~SingleEntry(files[i].Body.doc)}

\* C28: every document of a Ready store has exactly one cluster, one
\* context and one user and resolves alone; and a directory holding a
\* document with an empty section or with two or more entries in a section
\* never becomes Ready.
C28_ReadyStoreSingleEntry ==
    /\ state = "Ready" =>
        \A n \in DOMAIN LoadedConfigs :
            /\ SingleEntry(LoadedConfigs[n])
            /\ loadAndMergeConfigs(LoadedConfigs, <<n>>).err = NoErr
    /\ MalformedPositions # {} => state # "Ready"

\* C30: when loading ends with no config in the store, startup ends Ready;
\* against that store the request without names is answered 200 with a
\* document of no clusters, no contexts and no users, and a request with
\* names is answered 404 with the not-found error of its first name.
C30_EmptyStore ==
    (DOMAIN LoadedConfigs = {}) =>
        /\ StartupEnded => state = "Ready"
        /\ (Answered /\ Len(req) = 0) =>
            /\ resp.status = StatusOK
            /\ Len(resp.doc.Clusters) = 0
            /\ Len(resp.doc.Contexts) = 0
            /\ Len(resp.doc.Users) = 0
        /\ (Answered /\ Len(req) > 0) =>
            /\ resp.status = StatusNotFound
            /\ IsNotFoundError(resp.err, req[1])

C30_Witness ==
    /\ DOMAIN LoadedConfigs = {}
    /\ Len(files) = 2
    /\ Answered
    /\ Len(req) = 2
    /\ resp.status = StatusNotFound

(***************************************************************************)
(* Properties of mergeKubeConfigs on pointers, checked under AppendSpec.   *)
(***************************************************************************)
\* C29: after a call, and after a second call on the same accumulator,
\* the accumulator and the incoming document show what they showed before
\* the call, a failed call has returned an error and no document, and the
\* document the first call returned still shows what it showed when it was
\* returned.
C29_MergeLeavesArguments ==
    apc \in {"second", "done"} =>
        /\ View(heap, aArgs.config1) = aSeen.config1
        /\ View(heap, aArgs.config2) = aSeen.config2
        /\ \A i \in 1..Len(aRes) : aRes[i].err # NoError <=> aRes[i].ptr = NilRef
        /\ aRes[1].err = NoError => View(heap, aRes[1].ptr) = aSeen.first

(***************************************************************************)
(* Properties of the returned server on pointers, checked under ServeSpec. *)
(***************************************************************************)
\* What the index shows: the document behind every pointer of the map.
IndexNow == [n \in DOMAIN ptrConfigs |-> View(heap, ptrConfigs[n])]

\* C22: whatever get and list requests have been served or are being
\* served, with or without error, the index holds the names and, entry by
\* entry, the documents it held when the server was returned.
C22_IndexNeverChanges ==
    IndexNow = readyIndex

C22_Witness ==
    /\ IndexNow = readyIndex
    /\ Cardinality(DOMAIN ptrConfigs) = 3
    /\ calls[1].pc = "done"
    /\ calls[1].err # NoErr
    /\ calls[2].pc = "merge"
    /\ calls[2].i = 3

\* C23: under every interleaving of the requests, a get request is
\* answered with what resolving its names alone against the store returns,
\* while it runs its accumulator shows what the names merged so far give
\* alone, a list request is answered with the keys of the store, and no
\* goroutine writes memory that another one allocated.
C23_ConcurrentAsAlone ==
    /\ ~heap.foreign
    /\ \A g \in Goroutines :
        LET c == calls[g] IN
        /\ (c.pc = "done" /\ c.kind = "get") =>
            [err |-> c.err, doc |-> c.out] = loadAndMergeConfigs(readyIndex, c.names)
        /\ c.pc = "merge" =>
            [err |-> NoErr, doc |-> View(heap, c.kubeConfig)] =
                loadAndMergeConfigs(readyIndex, SubSeq(c.names, 1, c.i - 1))
        /\ (c.pc = "done" /\ c.kind = "list") => c.names \in KeyOrders(readyIndex)
        /\ Len(c.params) > 0 => c.names = c.params

C23_Witness ==
    /\ calls[1].pc = "done"
    /\ calls[1].kind = "get"
    /\ calls[1].params = <<<<"a">>, <<"c">>>>
    /\ calls[1].err = NoErr
    /\ calls[2].pc = "merge"
    /\ calls[2].params = <<<<"c">>, <<"a">>>>
    /\ calls[2].i = 2

====
